---- MODULE Spec2Model ----
(***************************************************************************)
(* A model of args.h: the stored argument vector (args__argc, args__argv)  *)
(* and the operations args_parse, args_print, args_bool, args_int,         *)
(* args_float and args_string.                                             *)
(*                                                                         *)
(* A C string is a sequence of one-character strings; it holds no NUL, so  *)
(* writing a NUL into an argument is modelled as cutting the sequence      *)
(* there (every function of the library reads an argument only up to its   *)
(* first NUL).  C index i of argv is index i + 1 of the sequence.          *)
(***************************************************************************)
EXTENDS Integers, Sequences, FiniteSets, TLC

VARIABLES argv,        \* the strings of the process's argument vector (the storage args__argv points to)
          args__argc,  \* static int args__argc
          args__argv,  \* static char **args__argv: "NULL", or "argv" once registered
          call,        \* the last library call: [op, arg, ret]
          old          \* the argument strings as they were when that call started

vars == <<argv, args__argc, args__argv, call, old>>

(* ------------------------------ bounds --------------------------------- *)

\* the greatest number of user-supplied arguments (argc - 1)
MaxArgs == 3

(* -------------------------- <ctype.h>, <string.h> ---------------------- *)

Digits == <<"0", "1", "2", "3", "4", "5", "6", "7", "8", "9">>

Upper == <<"A", "B", "C", "D", "E", "F", "G", "H", "I", "J", "K", "L", "M",
           "N", "O", "P", "Q", "R", "S", "T", "U", "V", "W", "X", "Y", "Z">>

Lower == <<"a", "b", "c", "d", "e", "f", "g", "h", "i", "j", "k", "l", "m",
           "n", "o", "p", "q", "r", "s", "t", "u", "v", "w", "x", "y", "z">>

\* isdigit(c)
isdigit(c) == \E d \in DOMAIN Digits : Digits[d] = c

\* the value of a decimal digit
DigitVal(c) == (CHOOSE d \in DOMAIN Digits : Digits[d] = c) - 1

\* isspace(c), "C" locale
isspace(c) == c \in {" ", "\t", "\n", "\r"}

\* tolower(c)
tolower(c) ==
  IF \E u \in DOMAIN Upper : Upper[u] = c
  THEN Lower[CHOOSE u \in DOMAIN Upper : Upper[u] = c]
  ELSE c

\* the first character of a C string: the terminating NUL of an empty one
FirstChar(s) == IF Len(s) = 0 THEN "NUL" ELSE s[1]

\* strcmp(a, b) == 0
strcmp0(a, b) == a = b

\* strcasecmp(a, b) == 0
strcasecmp0(a, b) ==
  /\ Len(a) = Len(b)
  /\ \A p \in 1..Len(a) : tolower(a[p]) = tolower(b[p])

\* strncmp(a, flag, strlen(flag)) == 0: flag is a prefix of a
strncmp0(a, flag) ==
  /\ Len(flag) <= Len(a)
  /\ SubSeq(a, 1, Len(flag)) = flag

\* strchr(a, c): the position of the first c in a, 0 for a null pointer
strchr(a, c) ==
  IF \E p \in 1..Len(a) : a[p] = c
  THEN CHOOSE p \in 1..Len(a) : a[p] = c /\ \A q \in 1..(p - 1) : a[q] # c
  ELSE 0

\* the C string that starts at position p of a (p = Len(a) + 1: the empty one)
From(a, p) == SubSeq(a, p, Len(a))

(* ------------------------------- strtok -------------------------------- *)

RECURSIVE TokScan(_, _, _, _)
TokScan(s, p, cur, acc) ==
  IF p > Len(s)
  THEN IF cur = <<>> THEN acc ELSE Append(acc, cur)
  ELSE IF s[p] = "|"
       THEN TokScan(s, p + 1, <<>>, IF cur = <<>> THEN acc ELSE Append(acc, cur))
       ELSE TokScan(s, p + 1, Append(cur, s[p]), acc)

\* the tokens strtok(arg_copy, "|"), strtok(NULL, "|"), ... yield, in order:
\* the maximal runs of characters other than the separator, none of them empty
strtok(arg) == TokScan(arg, 1, <<>>, <<>>)

(* ------------------------------ <stdlib.h> ----------------------------- *)

RECURSIVE SkipSpace(_, _)
\* the first position from p on that holds no white space
SkipSpace(s, p) ==
  IF p <= Len(s) /\ isspace(s[p]) THEN SkipSpace(s, p + 1) ELSE p

RECURSIVE DigitsEnd(_, _)
\* the first position from p on that holds no decimal digit
DigitsEnd(s, p) ==
  IF p <= Len(s) /\ isdigit(s[p]) THEN DigitsEnd(s, p + 1) ELSE p

RECURSIVE DecVal(_, _, _)
\* the number the decimal digits s[p], ..., s[q - 1] spell (0 for none)
DecVal(s, p, q) ==
  IF q <= p THEN 0 ELSE 10 * DecVal(s, p, q - 1) + DigitVal(s[q - 1])

RECURSIVE Pow10(_)
Pow10(n) == IF n <= 0 THEN 1 ELSE 10 * Pow10(n - 1)

\* atoi(s) = (int) strtol(s, NULL, 10): white space, an optional sign, then
\* the longest run of decimal digits; 0 when there is none.  A number that
\* does not fit an int is undefined behaviour of atoi; the arguments of this
\* model have fewer digits than that takes.
atoi(s) ==
  LET p   == SkipSpace(s, 1)
      neg == p <= Len(s) /\ s[p] = "-"
      q   == IF p <= Len(s) /\ s[p] \in {"+", "-"} THEN p + 1 ELSE p
      v   == DecVal(s, q, DigitsEnd(s, q))
  IN  IF neg THEN 0 - v ELSE v

RECURSIVE Normal(_, _)
\* a double is written [m, e], the number m / 10^e with e >= 0, in lowest
\* terms, so that two decimal spellings of one number are one value
Normal(m, e) ==
  IF m = 0 THEN [m |-> 0, e |-> 0]
  ELSE IF e > 0 /\ m % 10 = 0 THEN Normal(m \div 10, e - 1)
  ELSE [m |-> m, e |-> e]

\* atof(s) = strtod(s, NULL) on decimal input: white space, an optional
\* sign, digits with an optional point (one digit at least), an optional
\* exponent; 0.0 when no number starts the text.  The hexadecimal,
\* "inf" and "nan" spellings of strtod are outside the input alphabet of
\* this model, and so are numbers of more digits than a double holds.
atof(s) ==
  LET p    == SkipSpace(s, 1)
      neg  == p <= Len(s) /\ s[p] = "-"
      q    == IF p <= Len(s) /\ s[p] \in {"+", "-"} THEN p + 1 ELSE p
      r    == DigitsEnd(s, q)
      dot  == r <= Len(s) /\ s[r] = "."
      t    == IF dot THEN DigitsEnd(s, r + 1) ELSE r
      nint == r - q
      nfr  == IF dot THEN t - (r + 1) ELSE 0
      mant == DecVal(s, q, r) * Pow10(nfr) + (IF dot THEN DecVal(s, r + 1, t) ELSE 0)
      hasE == t <= Len(s) /\ s[t] \in {"e", "E"}
      xneg == hasE /\ t + 1 <= Len(s) /\ s[t + 1] = "-"
      x    == IF hasE /\ t + 1 <= Len(s) /\ s[t + 1] \in {"+", "-"} THEN t + 2 ELSE t + 1
      y    == IF hasE THEN DigitsEnd(s, x) ELSE x
      ex   == IF hasE /\ y > x
              THEN (IF xneg THEN 0 - DecVal(s, x, y) ELSE DecVal(s, x, y))
              ELSE 0
      sm   == IF neg THEN 0 - mant ELSE mant
  IN  IF nint + nfr = 0 THEN [m |-> 0, e |-> 0]
      ELSE IF ex >= nfr THEN Normal(sm * Pow10(ex - nfr), 0)
      ELSE Normal(sm, nfr - ex)

(* ------------------------------ args_bool ------------------------------ *)

true_values ==
  << <<"t", "r", "u", "e">>, <<"o", "n">>, <<"y", "e", "s">>, <<"y">>, <<"1">> >>

false_values ==
  << <<"f", "a", "l", "s", "e">>, <<"o", "f", "f">>, <<"n", "o">>, <<"n">>, <<"0">> >>

\* argv[i], C index i
Arg(av, i) == av[i + 1]

\* the exact-match branch with the following argument compared by strcmp
BoolBareCaseSensitive(argc, av, i) ==
  IF i + 1 < argc
     /\ \E j \in DOMAIN true_values : strcmp0(Arg(av, i + 1), true_values[j])
  THEN TRUE
  ELSE IF i + 1 < argc
          /\ \E j \in DOMAIN false_values : strcmp0(Arg(av, i + 1), false_values[j])
  THEN FALSE
  ELSE TRUE

\* the exact-match branch: the value returned when argv[i] is the flag
BoolBare(argc, av, i) ==
  IF i + 1 < argc
     /\ \E j \in DOMAIN true_values : strcasecmp0(Arg(av, i + 1), true_values[j])
  THEN TRUE
  ELSE IF i + 1 < argc
          /\ \E j \in DOMAIN false_values : strcasecmp0(Arg(av, i + 1), false_values[j])
  THEN FALSE
  ELSE TRUE

\* the `--flag=<value>` branch on an argument a that has the flag as prefix:
\* "true" or "false" when the function returns there, "none" when the scan goes on
BoolValue(a) ==
  LET q     == strchr(a, "=")
      value == From(a, q + 1)
  IN  IF q = 0 THEN "none"
      ELSE IF \E j \in DOMAIN true_values : strcmp0(value, true_values[j]) THEN "true"
      ELSE IF \E j \in DOMAIN false_values : strcmp0(value, false_values[j]) THEN "false"
      ELSE "none"

\* a scan that starts at argv[0], the program's name
FirstArgZero == 1 - 1

\* the C index the scans of argv start at: argv[0] is the program's name
FirstArg == 1

RECURSIVE BoolScanAcc(_, _, _, _, _, _)
\* the loops of args_bool with the `--flag=<value>` branch assigning a result
\* and scanning on instead of returning
BoolScanAcc(argc, av, flags, k, i, acc) ==
  IF k > Len(flags) THEN acc
  ELSE IF i >= argc THEN BoolScanAcc(argc, av, flags, k + 1, FirstArg, acc)
  ELSE IF strcmp0(Arg(av, i), flags[k]) THEN BoolBare(argc, av, i)
  ELSE IF strncmp0(Arg(av, i), flags[k]) /\ BoolValue(Arg(av, i)) # "none"
       THEN BoolScanAcc(argc, av, flags, k, i + 1, BoolValue(Arg(av, i)) = "true")
  ELSE BoolScanAcc(argc, av, flags, k, i + 1, acc)

BoolScanNoExit(argc, av, flags, k, i) == BoolScanAcc(argc, av, flags, k, i, FALSE)

RECURSIVE BoolScan(_, _, _, _, _)
\* the loops of args_bool from flag number k (of the tokens of arg) and C index i on
BoolScan(argc, av, flags, k, i) ==
  IF k > Len(flags) THEN FALSE
  ELSE IF i >= argc THEN BoolScan(argc, av, flags, k + 1, FirstArg)
  ELSE IF strcmp0(Arg(av, i), flags[k]) THEN BoolBare(argc, av, i)
  ELSE IF strncmp0(Arg(av, i), flags[k]) /\ BoolValue(Arg(av, i)) # "none"
       THEN BoolValue(Arg(av, i)) = "true"
  ELSE BoolScan(argc, av, flags, k, i + 1)

\* what args_bool(arg) returns on the vector (argc, av)
BoolResult(argc, av, arg) == BoolScan(argc, av, strtok(arg), 1, FirstArg)

(* ------------------------- args_int, args_float ------------------------ *)

\* the body of the inner loop of args_int without the isdigit test
IntStepNoDigitTest(argc, av, flag, i, result) ==
  IF strcmp0(Arg(av, i), flag)
  THEN IF i + 1 < argc THEN atoi(Arg(av, i + 1)) ELSE result
  ELSE IF strncmp0(Arg(av, i), flag) /\ strchr(Arg(av, i), "=") # 0
       THEN atoi(From(Arg(av, i), strchr(Arg(av, i), "=") + 1))
       ELSE result

\* one pass of the body of the inner loop of args_int
IntStep(argc, av, flag, i, result) ==
  IF strcmp0(Arg(av, i), flag)
  THEN IF i + 1 < argc /\ isdigit(FirstChar(Arg(av, i + 1)))
       THEN atoi(Arg(av, i + 1))
       ELSE result
  ELSE IF strncmp0(Arg(av, i), flag) /\ strchr(Arg(av, i), "=") # 0
       THEN atoi(From(Arg(av, i), strchr(Arg(av, i), "=") + 1))
       ELSE result

RECURSIVE IntScanEarlyExit(_, _, _, _, _, _)
\* the loops of args_int returning at the first argument that gives a value
IntScanEarlyExit(argc, av, flags, k, i, result) ==
  IF k > Len(flags) THEN result
  ELSE IF i >= argc THEN IntScanEarlyExit(argc, av, flags, k + 1, FirstArg, result)
  ELSE IF \/ /\ strcmp0(Arg(av, i), flags[k])
              /\ i + 1 < argc
              /\ isdigit(FirstChar(Arg(av, i + 1)))
          \/ /\ ~ strcmp0(Arg(av, i), flags[k])
              /\ strncmp0(Arg(av, i), flags[k])
              /\ strchr(Arg(av, i), "=") # 0
       THEN IntStep(argc, av, flags[k], i, result)
  ELSE IntScanEarlyExit(argc, av, flags, k, i + 1, result)

RECURSIVE IntScan(_, _, _, _, _, _)
IntScan(argc, av, flags, k, i, result) ==
  IF k > Len(flags) THEN result
  ELSE IF i >= argc THEN IntScan(argc, av, flags, k + 1, FirstArg, result)
  ELSE IntScan(argc, av, flags, k, i + 1, IntStep(argc, av, flags[k], i, result))

\* what args_int(arg) returns on the vector (argc, av)
IntResult(argc, av, arg) == IntScan(argc, av, strtok(arg), 1, FirstArg, 0)

\* one pass of the body of the inner loop of args_float
FloatStep(argc, av, flag, i, result) ==
  IF strcmp0(Arg(av, i), flag)
  THEN IF i + 1 < argc /\ isdigit(FirstChar(Arg(av, i + 1)))
       THEN atof(Arg(av, i + 1))
       ELSE result
  ELSE IF strncmp0(Arg(av, i), flag) /\ strchr(Arg(av, i), "=") # 0
       THEN atof(From(Arg(av, i), strchr(Arg(av, i), "=") + 1))
       ELSE result

RECURSIVE FloatScan(_, _, _, _, _, _)
FloatScan(argc, av, flags, k, i, result) ==
  IF k > Len(flags) THEN result
  ELSE IF i >= argc THEN FloatScan(argc, av, flags, k + 1, FirstArg, result)
  ELSE FloatScan(argc, av, flags, k, i + 1, FloatStep(argc, av, flags[k], i, result))

\* what args_float(arg) returns on the vector (argc, av)
FloatResult(argc, av, arg) ==
  FloatScan(argc, av, strtok(arg), 1, FirstArg, [m |-> 0, e |-> 0])

(* ----------------------------- args_string ----------------------------- *)

\* a char pointer: null, or position p of argv[i]
NullPtr == [null |-> TRUE, i |-> 0, p |-> 0]
Ptr(i, p) == [null |-> FALSE, i |-> i, p |-> p]

\* the position of the first double quote of a from position p on, else that
\* of the terminating NUL: where `while (!(*value == '"' || *value == '\0'))` stops
QuoteEnd(a, p) ==
  IF \E c \in p..Len(a) : a[c] = "\""
  THEN CHOOSE c \in p..Len(a) : a[c] = "\"" /\ \A d \in p..(c - 1) : a[d] # "\""
  ELSE Len(a) + 1

\* the terminator written one position early
TerminateOneEarly(a, c) == SubSeq(a, 1, c - 2)

\* *value = '\0' at position c of a
Terminate(a, c) == SubSeq(a, 1, c - 1)

\* one pass of the body of the inner loop of args_string, on the scan state
\* st = [av: the argument strings, result: the pointer]
StringStep(argc, st, flag, i) ==
  LET a == Arg(st.av, i)
      q == strchr(a, "=")
  IN  IF strcmp0(a, flag) /\ i + 1 < argc
      THEN [st EXCEPT !.result = Ptr(i + 1, 1)]
      ELSE IF strncmp0(a, flag) /\ q # 0
           THEN IF q + 1 <= Len(a) /\ a[q + 1] = "\""
                THEN [av     |-> [st.av EXCEPT ![i + 1] = Terminate(a, QuoteEnd(a, q + 2))],
                      result |-> Ptr(i, q + 2)]
                ELSE [st EXCEPT !.result = Ptr(i, q + 1)]
           ELSE st

RECURSIVE StringScan(_, _, _, _, _)
StringScan(argc, st, flags, k, i) ==
  IF k > Len(flags) THEN st
  ELSE IF i >= argc THEN StringScan(argc, st, flags, k + 1, FirstArg)
  ELSE StringScan(argc, StringStep(argc, st, flags[k], i), flags, k, i + 1)

\* the scan state args_string(arg) ends in on the vector (argc, av)
StringFinal(argc, av, arg) ==
  StringScan(argc, [av |-> av, result |-> NullPtr], strtok(arg), 1, FirstArg)

\* a returned const char *: NULL, or the C string it points to
NULL == [null |-> TRUE, s |-> <<>>]
Str(s) == [null |-> FALSE, s |-> s]

\* the string the pointer r points to in av
Deref(av, r) == IF r.null THEN NULL ELSE Str(From(Arg(av, r.i), r.p))

\* what args_string(arg) returns on the vector (argc, av)
StringResult(argc, av, arg) ==
  Deref(StringFinal(argc, av, arg).av, StringFinal(argc, av, arg).result)

(* ------------------------------ operations ----------------------------- *)

\* void args_parse(int argc, char **argv), called with main's argc and argv
args_parse ==
  /\ args__argc' = Len(argv)
  /\ args__argv' = "argv"
  /\ call' = [op |-> "args_parse", arg |-> <<>>, ret |-> <<>>]
  /\ old' = argv
  /\ UNCHANGED argv

\* void args_print(): ret is the listing, one <<index, argument>> per line
args_print ==
  /\ call' = [op |-> "args_print", arg |-> <<>>,
              ret |-> [n \in 1..args__argc |-> <<n - 1, argv[n]>>]]
  /\ old' = argv
  /\ UNCHANGED <<argv, args__argc, args__argv>>

\* bool args_bool(const char *arg)
args_bool(arg) ==
  /\ call' = [op |-> "args_bool", arg |-> arg, ret |-> BoolResult(args__argc, argv, arg)]
  /\ old' = argv
  /\ UNCHANGED <<argv, args__argc, args__argv>>

\* int args_int(const char *arg)
args_int(arg) ==
  /\ call' = [op |-> "args_int", arg |-> arg, ret |-> IntResult(args__argc, argv, arg)]
  /\ old' = argv
  /\ UNCHANGED <<argv, args__argc, args__argv>>

\* double args_float(const char *arg)
args_float(arg) ==
  /\ call' = [op |-> "args_float", arg |-> arg, ret |-> FloatResult(args__argc, argv, arg)]
  /\ old' = argv
  /\ UNCHANGED <<argv, args__argc, args__argv>>

\* const char *args_string(const char *arg)
args_string(arg) ==
  /\ call' = [op |-> "args_string", arg |-> arg, ret |-> StringResult(args__argc, argv, arg)]
  /\ old' = argv
  /\ argv' = StringFinal(args__argc, argv, arg).av
  /\ UNCHANGED <<args__argc, args__argv>>

(* ---------------------------- specifications -------------------------- *)

\* the argument vectors of at most MaxArgs user arguments drawn from Vocab,
\* behind a program name drawn from Progs
Vectors(Progs, Vocab) ==
  { <<prog>> \o t : prog \in Progs,
                    t \in UNION { [1..n -> Vocab] : n \in 0..MaxArgs } }

\* the state main starts in: the statics are zero, no call was made
InitOn(Progs, Vocab) ==
  /\ argv \in Vectors(Progs, Vocab)
  /\ args__argc = 0
  /\ args__argv = "NULL"
  /\ call = [op |-> "none", arg |-> <<>>, ret |-> <<>>]
  /\ old = argv

\* any call of the library, the queries with an alias spec drawn from Specs
NextOn(Specs) ==
  \/ args_parse
  \/ args_print
  \/ \E arg \in Specs : args_bool(arg)
  \/ \E arg \in Specs : args_int(arg)
  \/ \E arg \in Specs : args_float(arg)
  \/ \E arg \in Specs : args_string(arg)

\* program names: p, and n (a name that is also an alias)
Progs == { <<"p">>, <<"n">> }

\* user arguments: -c  5  OFF  -cx=5  n=1
Vocab ==
  { <<"-", "c">>, <<"5">>, <<"O", "F", "F">>, <<"-", "c", "x", "=", "5">>,
    <<"n", "=", "1">> }

\* alias specs: "n|-c"  "-c||n"  ""
Specs ==
  { <<"n", "|", "-", "c">>, <<"-", "c", "|", "|", "n">>, <<>> }

Init == InitOn(Progs, Vocab)
Next == NextOn(Specs)
Spec == Init /\ [][Next]_vars

\* user arguments: -d  -v  OFF  x  -d=y  -d=n  -d=ON
VocabBool ==
  { <<"-", "d">>, <<"-", "v">>, <<"O", "F", "F">>, <<"x">>,
    <<"-", "d", "=", "y">>, <<"-", "d", "=", "n">>, <<"-", "d", "=", "O", "N">> }

\* alias specs: "-d"  "-v|-d"
SpecsBool ==
  { <<"-", "d">>, <<"-", "v", "|", "-", "d">> }

InitBool == InitOn({ <<"p">> }, VocabBool)
NextBool == NextOn(SpecsBool)
SpecBool == InitBool /\ [][NextBool]_vars

\* user arguments: -c  -n  42  -5  3.5  -c=7  -c=x
VocabNum ==
  { <<"-", "c">>, <<"-", "n">>, <<"4", "2">>, <<"-", "5">>, <<"3", ".", "5">>,
    <<"-", "c", "=", "7">>, <<"-", "c", "=", "x">> }

\* alias specs: "-c"  "-c|-n"
SpecsNum ==
  { <<"-", "c">>, <<"-", "c", "|", "-", "n">> }

InitNum == InitOn({ <<"p">> }, VocabNum)
NextNum == NextOn(SpecsNum)
SpecNum == InitNum /\ [][NextNum]_vars

\* user arguments: -s  ab  -s="a b"  -s="a"b  -s="b  -t=a=b
VocabStr ==
  { <<"-", "s">>, <<"a", "b">>,
    <<"-", "s", "=", "\"", "a", " ", "b", "\"">>,
    <<"-", "s", "=", "\"", "a", "\"", "b">>,
    <<"-", "s", "=", "\"", "b">>,
    <<"-", "t", "=", "a", "=", "b">> }

\* alias specs: "-t|-s"  "-s="a"  "-t=a"
SpecsStr ==
  { <<"-", "t", "|", "-", "s">>, <<"-", "s", "=", "\"", "a">>,
    <<"-", "t", "=", "a">> }

InitStr == InitOn({ <<"p">> }, VocabStr)
NextStr == NextOn(SpecsStr)
SpecStr == InitStr /\ [][NextStr]_vars

(* -------------------------------- claims ------------------------------- *)

\* the alias tokens of the last call's spec
Flags == strtok(call.arg)

\* the last call was a query
IsQuery == call.op \in {"args_bool", "args_int", "args_float", "args_string"}

\* the C indices a scan of the stored vector visits
UserArgs == 1..(args__argc - 1)

\* the value a query gives for an absent flag
Default(op) ==
  CASE op = "args_bool"   -> FALSE
    [] op = "args_int"    -> 0
    [] op = "args_float"  -> [m |-> 0, e |-> 0]
    [] op = "args_string" -> NULL

\* no argument at index >= 1 equals or has as a prefix an alias token of the spec
NoAliasOccurs ==
  \A k \in DOMAIN Flags : \A i \in UserArgs : ~ strncmp0(Arg(old, i), Flags[k])

\* C1: a query whose alias tokens occur in no argument at index >= 1, neither
\* as the whole argument nor as its prefix, returns false, 0, 0.0 or NULL;
\* so does every query made before args_parse.
C1_AbsentGivesDefaults ==
  (IsQuery /\ (args__argv = "NULL" \/ NoAliasOccurs)) => call.ret = Default(call.op)

\* C1 happens: an int query with two alias tokens on a parsed vector of three
\* user arguments, none matching, whose program name is itself an alias
C1_Witness ==
  /\ call.op = "args_int"
  /\ args__argv = "argv"
  /\ Len(old) = 4
  /\ Len(Flags) = 2
  /\ \E k \in DOMAIN Flags : old[1] = Flags[k]
  /\ NoAliasOccurs

\* C6: when no user argument is an alias token F or begins with F followed by
\* "=", the arguments have no effect: every query returns its default.
C6_OnlyTwoShapes ==
  ( /\ IsQuery
    /\ args__argv = "argv"
    /\ \A k \in DOMAIN Flags : \A i \in UserArgs :
         /\ Arg(old, i) # Flags[k]
         /\ ~ strncmp0(Arg(old, i), Flags[k] \o <<"=">>) )
  => call.ret = Default(call.op)

\* position (k, i) of a scan, flag number k and C index i, comes before (k2, i2)
Before(k, i, k2, i2) == k < k2 \/ (k = k2 /\ i < i2)

\* argument i is exactly alias token k
Exact(k, i) == Arg(old, i) = Flags[k]

\* argument i has alias token k as prefix
HasPrefix(k, i) == strncmp0(Arg(old, i), Flags[k])

\* the text of a after its first "="
AfterEq(a) == From(a, strchr(a, "=") + 1)

\* v in lower case
Fold(v) == [p \in 1..Len(v) |-> tolower(v[p])]

\* v is one of the words of the list
InList(v, list) == \E j \in DOMAIN list : v = list[j]

\* argument i holds a "=" and the text after its first "=" is, letter for
\* letter, a truthy or a falsy word
Recognised(i) ==
  /\ strchr(Arg(old, i), "=") # 0
  /\ \/ InList(AfterEq(Arg(old, i)), true_values)
     \/ InList(AfterEq(Arg(old, i)), false_values)

\* the scan of args_bool returns at (k, i) through the `--flag=<value>` branch
EqReturns(k, i) == ~ Exact(k, i) /\ HasPrefix(k, i) /\ Recognised(i)

\* what the bare flag at C index i means: false when a following argument
\* exists and is a falsy word in any letter case, true otherwise
BareMeaning(i) ==
  ~ (i + 1 < args__argc /\ InList(Fold(Arg(old, i + 1)), false_values))

\* (k, i) is the first position, in scan order, whose argument is exactly the
\* alias token, and the scan gets there
FirstExact(k, i) ==
  /\ Exact(k, i)
  /\ \A k2 \in DOMAIN Flags : \A i2 \in UserArgs :
       Before(k2, i2, k, i) => (~ Exact(k2, i2) /\ ~ EqReturns(k2, i2))

C3_EqFormIgnoresCase ==
  (call.op = "args_bool" /\ args__argc = 2) =>
    \A k \in DOMAIN Flags :
      strncmp0(Arg(old, 1), Flags[k] \o <<"=">>) =>
        LET v == From(Arg(old, 1), Len(Flags[k]) + 2)
        IN  /\ InList(Fold(v), true_values) => call.ret = TRUE
            /\ InList(Fold(v), false_values) => call.ret = FALSE

\* the C indices of the arguments F=v, F alias token k, v a truthy or falsy word
EqTokens(k) ==
  { i \in UserArgs :
      /\ strncmp0(Arg(old, i), Flags[k] \o <<"=">>)
      /\ \/ InList(From(Arg(old, i), Len(Flags[k]) + 2), true_values)
         \/ InList(From(Arg(old, i), Len(Flags[k]) + 2), false_values) }

\* the C indices of the arguments that have alias token k as prefix and a
\* truthy or falsy word after their first "="
ValuedTokens(k) == { i \in UserArgs : HasPrefix(k, i) /\ Recognised(i) }

\* no argument is exactly an alias token
NoExact == \A k \in DOMAIN Flags : \A i \in UserArgs : ~ Exact(k, i)

Max(S) == CHOOSE x \in S : \A y \in S : y <= x
Min(S) == CHOOSE x \in S : \A y \in S : x <= y

\* C10 as stated: with several F=<value> tokens of one alias token F, each
\* value truthy or falsy, and no argument exactly an alias token, args_bool
\* returns what the LAST of them says.
C10_LastWins ==
  call.op = "args_bool" =>
    \A k \in DOMAIN Flags :
      (Cardinality(EqTokens(k)) >= 2 /\ NoExact)
        => call.ret = InList(AfterEq(Arg(old, Max(EqTokens(k)))), true_values)

\* C10 amended: the `--flag=<value>` branch returns at once.  With several
\* arguments that have alias token F as prefix and a truthy or falsy word
\* (letter for letter) after their first "=", no argument exactly an alias
\* token and no such argument for an alias token before F in the spec,
\* args_bool returns what the FIRST of them says.
C10_FirstWins ==
  call.op = "args_bool" =>
    \A k \in DOMAIN Flags :
      ( /\ Cardinality(ValuedTokens(k)) >= 2
        /\ NoExact
        /\ \A k2 \in 1..(k - 1) : ValuedTokens(k2) = {} )
        => call.ret = InList(AfterEq(Arg(old, Min(ValuedTokens(k)))), true_values)

\* C10 happens: the first valued token says true, the last says false, and
\* args_bool returned true
C10_Witness ==
  /\ call.op = "args_bool"
  /\ call.ret = TRUE
  /\ NoExact
  /\ \E k \in DOMAIN Flags :
       /\ Cardinality(ValuedTokens(k)) >= 2
       /\ \A k2 \in 1..(k - 1) : ValuedTokens(k2) = {}
       /\ InList(AfterEq(Arg(old, Min(ValuedTokens(k)))), true_values)
       /\ InList(AfterEq(Arg(old, Max(ValuedTokens(k)))), false_values)

\* the last call was args_int or args_float
IsNumQuery == call.op \in {"args_int", "args_float"}

\* the conversion the query applies to a text
Conv(s) == IF call.op = "args_int" THEN atoi(s) ELSE atof(s)

\* the whole number n as the query returns it
Num(n) == IF call.op = "args_int" THEN n ELSE [m |-> n, e |-> 0]

\* argument i holds a "="
HasEq(i) == strchr(Arg(old, i), "=") # 0

\* argument i matches no alias token, as a whole or as a prefix
Unrelated(i) == \A k \in DOMAIN Flags : ~ HasPrefix(k, i)

\* C4: args_int / args_float.  After an argument that exactly equals an alias
\* token, the following argument is converted and becomes the result only if
\* it exists and begins with a decimal digit; otherwise the result keeps its
\* prior value, 0 at first (so `-c -5` gives 0).  In the `=` form the text
\* after the "=" is converted whatever it is (`-c=7` gives 7, `-c=x` gives 0).
C4_NumericForms ==
  IsNumQuery =>
    /\ \A k \in DOMAIN Flags :
         (args__argc = 3 /\ Exact(k, 1) /\ Unrelated(2))
           => call.ret = IF isdigit(FirstChar(Arg(old, 2)))
                         THEN Conv(Arg(old, 2))
                         ELSE Default(call.op)
    /\ \A k \in DOMAIN Flags :
         (args__argc = 2 /\ NoExact /\ HasPrefix(k, 1) /\ HasEq(1))
           => call.ret = Conv(AfterEq(Arg(old, 1)))
    /\ \A k \in DOMAIN Flags :
         ( /\ args__argc = 4
           /\ ~ Exact(k, 1) /\ HasPrefix(k, 1) /\ HasEq(1)
           /\ Exact(k, 2)
           /\ Unrelated(3)
           /\ ~ isdigit(FirstChar(Arg(old, 3)))
           /\ \A k2 \in DOMAIN Flags : \A i \in UserArgs : Exact(k2, i) => i = 2 )
           => call.ret = Conv(AfterEq(Arg(old, 1)))
    /\ (Flags = << <<"-", "c">> >> /\ args__argc = 3 /\ Exact(1, 1)) =>
         /\ Arg(old, 2) = <<"-", "5">> => call.ret = Num(0)
         /\ Arg(old, 2) = <<"4", "2">> => call.ret = Num(42)
         /\ Arg(old, 2) = <<"3", ".", "5">> =>
              call.ret = IF call.op = "args_int" THEN 3 ELSE [m |-> 35, e |-> 1]
    /\ (Flags = << <<"-", "c">> >> /\ args__argc = 2) =>
         /\ Arg(old, 1) = <<"-", "c", "=", "7">> => call.ret = Num(7)
         /\ Arg(old, 1) = <<"-", "c", "=", "x">> => call.ret = Num(0)

\* C4 happens: args_int("-c") on p -c -5 returned 0
C4_Witness ==
  /\ call.op = "args_int"
  /\ Flags = << <<"-", "c">> >>
  /\ args__argv = "argv"
  /\ old = << <<"p">>, <<"-", "c">>, <<"-", "5">> >>
  /\ call.ret = 0

\* the last call was args_int, args_float or args_string
IsValueQuery == call.op \in {"args_int", "args_float", "args_string"}

\* the scan takes the `--flag=<value>` branch at (k, i) and finds a "="
EqForm(k, i) == ~ Exact(k, i) /\ HasPrefix(k, i) /\ HasEq(i)

\* the scan assigns the result at position (k, i)
Produces(k, i) ==
  IF call.op = "args_string"
  THEN \/ Exact(k, i) /\ i + 1 < args__argc
       \/ ~ (Exact(k, i) /\ i + 1 < args__argc) /\ HasPrefix(k, i) /\ HasEq(i)
  ELSE \/ Exact(k, i) /\ i + 1 < args__argc /\ isdigit(FirstChar(Arg(old, i + 1)))
       \/ EqForm(k, i)

\* the text after the first "=" of argument i opens with a double quote
Quoted(i) ==
  /\ strchr(Arg(old, i), "=") + 1 <= Len(Arg(old, i))
  /\ Arg(old, i)[strchr(Arg(old, i), "=") + 1] = "\""

\* the value the scan assigns at position (k, i), as the caller sees it when
\* the call returns
Value(k, i) ==
  IF call.op = "args_string"
  THEN IF Exact(k, i) /\ i + 1 < args__argc
       THEN Str(Arg(argv, i + 1))
       ELSE Str(From(Arg(argv, i),
                     strchr(Arg(old, i), "=") + (IF Quoted(i) THEN 2 ELSE 1)))
  ELSE IF Exact(k, i)
       THEN Conv(Arg(old, i + 1))
       ELSE Conv(AfterEq(Arg(old, i)))

\* (k, i) is the last position of the scan that assigns the result
LastMatch(k, i) ==
  /\ Produces(k, i)
  /\ \A k2 \in DOMAIN Flags : \A i2 \in UserArgs :
       Produces(k2, i2) => ~ Before(k, i, k2, i2)

\* the value returned is the one of the last assigning position of the scan
\* (alias tokens in spec order, for each every argv index from 1 upward)
LastMatchWins ==
  IsValueQuery =>
    /\ \A k \in DOMAIN Flags : \A i \in UserArgs :
         LastMatch(k, i) => call.ret = Value(k, i)
    /\ (\A k \in DOMAIN Flags : \A i \in UserArgs : ~ Produces(k, i))
         => call.ret = Default(call.op)

\* an exact-match token with a following value at i (alias token k), a
\* separate `=`-form token at j (alias token k2) later in the vector (not the
\* value that follows an exact-match token), and no argument after j that
\* gives a value
ExactThenEqForm(k, i, k2, j) ==
  /\ Exact(k, i) /\ Produces(k, i)
  /\ j > i + 1
  /\ EqForm(k2, j)
  /\ \A k3 \in DOMAIN Flags : ~ Exact(k3, j) /\ ~ Exact(k3, j - 1)
  /\ \A k3 \in DOMAIN Flags : \A i3 \in UserArgs : i3 > j => ~ Produces(k3, i3)

\* C9 as stated: last match wins for args_int, args_float and args_string;
\* in particular, when the alias spec is satisfied both by an exact-match
\* token with a following value and by a separate `=`-form token later in the
\* vector, the `=`-form value is the result.
C9_EqFormLaterWins ==
  /\ LastMatchWins
  /\ IsValueQuery =>
       \A k \in DOMAIN Flags : \A k2 \in DOMAIN Flags :
         \A i \in UserArgs : \A j \in UserArgs :
           ExactThenEqForm(k, i, k2, j) => call.ret = Value(k2, j)

\* C9 amended: last match wins, the scan being alias-major: all of argv for
\* the first alias token, then all of argv for the next.  In particular, when
\* the spec is ONE alias token, satisfied both by an exact-match token with a
\* following value and by a separate `=`-form token later in the vector, the
\* `=`-form value is the result.
C9_LastMatchWinsAliasMajor ==
  /\ LastMatchWins
  /\ (IsValueQuery /\ Len(Flags) = 1) =>
       \A i \in UserArgs : \A j \in UserArgs :
         ExactThenEqForm(1, i, 1, j) => call.ret = Value(1, j)

\* C9 happens: one alias token, an exact match with a following number, a
\* later `=`-form token with another number, which args_int returned
C9_Witness ==
  /\ call.op = "args_int"
  /\ Len(Flags) = 1
  /\ \E i \in UserArgs : \E j \in UserArgs :
       /\ ExactThenEqForm(1, i, 1, j)
       /\ Value(1, i) # Value(1, j)
       /\ call.ret = Value(1, j)

\* what C5 says args_string makes of the text s that follows F=
Capture(s) ==
  IF Len(s) >= 1 /\ s[1] = "\""
  THEN SubSeq(s, 2, QuoteEnd(s, 2) - 1)
  ELSE s

\* C5: when the only user argument is F=s for an alias token F, args_string
\* returns s itself if s does not begin with a double quote, and otherwise
\* the characters after that quote up to the next double quote or, without
\* one, the end of the argument.
C5_EqFormCapture ==
  (call.op = "args_string" /\ args__argc = 2) =>
    \A k \in DOMAIN Flags :
      strncmp0(Arg(old, 1), Flags[k] \o <<"=">>)
        => call.ret = Str(Capture(From(Arg(old, 1), Len(Flags[k]) + 2)))

\* C5 for the alias tokens that hold no "=" themselves: there the first "="
\* of the argument is the one that follows F, and the capture is as C5 says
\* (`-s="a b"` gives `a b`)
C5_EqFormCaptureSimpleAlias ==
  (call.op = "args_string" /\ args__argc = 2) =>
    \A k \in DOMAIN Flags :
      (strchr(Flags[k], "=") = 0 /\ strncmp0(Arg(old, 1), Flags[k] \o <<"=">>))
        => call.ret = Str(Capture(From(Arg(old, 1), Len(Flags[k]) + 2)))

\* C7: the same query with the same alias spec, called twice in succession,
\* returns the same result both times.
C7_Idempotent ==
  [][ (IsQuery /\ call'.op = call.op /\ call'.arg = call.arg)
        => call'.ret = call.ret ]_vars

\* C7 for the alias specs that hold no double quote: there two calls of the
\* same query in succession agree, also when the first args_string call
\* stripped a closing quote
C7_IdempotentPlainAliases ==
  [][ ( /\ IsQuery /\ call'.op = call.op /\ call'.arg = call.arg
        /\ \A p \in 1..Len(call.arg) : call.arg[p] # "\"" )
        => call'.ret = call.ret ]_vars

\* argument number n (counted from 1) went from a to b by the one edit
\* args_string(arg) makes: a has an alias token of arg as prefix, its text
\* after its first "=" begins with a double quote, and b is a cut at the next
\* double quote
QuoteStripped(arg, a, b) ==
  /\ \E k \in DOMAIN strtok(arg) : strncmp0(a, strtok(arg)[k])
  /\ strchr(a, "=") # 0
  /\ strchr(a, "=") + 1 <= Len(a)
  /\ a[strchr(a, "=") + 1] = "\""
  /\ \E c \in (strchr(a, "=") + 2)..Len(a) :
       /\ a[c] = "\""
       /\ \A d \in (strchr(a, "=") + 2)..(c - 1) : a[d] # "\""
       /\ b = SubSeq(a, 1, c - 1)

\* C8: args_bool, args_int, args_float and args_print leave argc and every
\* character of every argument as they were; args_string leaves argc as it
\* was and changes an argument only by writing the terminator over the
\* closing double quote of an argument that has an alias token of the query
\* as prefix and whose text after its first "=" begins with a double quote.
C8_Frame ==
  [][ /\ call'.op \in {"args_bool", "args_int", "args_float", "args_print"}
        => (argv' = argv /\ args__argc' = args__argc /\ args__argv' = args__argv)
      /\ call'.op = "args_string"
        => /\ args__argc' = args__argc
           /\ args__argv' = args__argv
           /\ Len(argv') = Len(argv)
           /\ \A n \in 1..Len(argv) :
                \/ argv'[n] = argv[n]
                \/ /\ n >= 2
                   /\ QuoteStripped(call'.arg, argv[n], argv'[n]) ]_vars

\* C8 happens: an args_string call on a parsed vector stripped a closing quote
C8_Witness ==
  /\ call.op = "args_string"
  /\ args__argv = "argv"
  /\ argv # old
  /\ \E n \in 2..Len(old) : QuoteStripped(call.arg, old[n], argv[n])

====
